---- MODULE Spec2Model ----
(***************************************************************************)
(* Model of the Variables client of go-tfe (variable.go): the four         *)
(* operations List, Create, Update and Delete, each of which validates its *)
(* input, builds one request through the client's transport, executes it   *)
(* and returns the decoded result or the error.                            *)
(*                                                                         *)
(* Go values are represented as follows.                                   *)
(*   - a pointer is a sequence: <<>> is nil, <<x>> points to x;            *)
(*   - a string used as an identifier is a sequence of characters, so that *)
(*     the identifier check looks at every character; other strings are    *)
(*     TLA+ strings, "" being the empty string;                            *)
(*   - a slice is [isnil, elems]: Go tells a nil slice from an empty one;  *)
(*   - an error is its message, NoErr standing for the nil error.          *)
(***************************************************************************)
EXTENDS Naturals, Sequences, FiniteSets

\* The number of variables the remote API creates before the model stops
\* creating more (identifiers are never reused).
MaxVars == 1

\* The largest page number a List call asks for.
MaxPage == 2

VARIABLES server, before, call, ret, trace

vars == <<server, before, call, ret, trace>>

-----------------------------------------------------------------------------
(* Go values *)

Nil == <<>>

Ptr(x) == <<x>>

Deref(p) == p[1]

NilSlice == [isnil |-> TRUE, elems |-> <<>>]

\* append(vs, v): appending to a nil slice allocates it.
Append_(vs, v) == [isnil |-> FALSE, elems |-> Append(vs.elems, v)]

NoErr == "<nil>"

-----------------------------------------------------------------------------
(* variable.go: types *)

CategoryEnv == "env"

CategoryTerraform == "terraform"

\* The attributes of a variable, by the name of the Go field.
AttrFields == {"Key", "Value", "Category", "HCL", "Sensitive"}

\* The attributes of VariableCreateOptions tagged omitempty.
VariableCreateOptionsOmitEmpty == {"HCL", "Sensitive"}

\* A variant in which Value is not tagged omitempty.
VariableUpdateOptionsOmitEmpty_NoValue == AttrFields \ {"Value"}

\* The attributes of VariableUpdateOptions tagged omitempty: all of them.
VariableUpdateOptionsOmitEmpty == AttrFields

\* What the jsonapi encoder makes of an options struct: the primary id, the
\* attributes (an omitempty attribute is left out when its pointer is nil) and,
\* for VariableCreateOptions, the workspace relation.
Marshal(payload, omitempty, rel) ==
  [id    |-> payload.ID,
   attrs |-> [a \in {f \in AttrFields : f \notin omitempty \/ payload[f] # Nil}
                |-> payload[a]],
   rel   |-> rel]

-----------------------------------------------------------------------------
(* Helpers of the client package that variable.go calls *)

\* The characters an identifier may hold ([a-zA-Z0-9\-\._]), as far as the
\* model's identifiers use them.
IDChars == {"v", "n", "o", "e", "x", "-", "1", "2", "3", "4", "5", "6", "7", "8", "9"}

validString(v) == v # Nil /\ Deref(v) # ""

validStringID(v) ==
  /\ v # Nil
  /\ Len(Deref(v)) > 0
  /\ \A i \in 1..Len(Deref(v)) : Deref(v)[i] \in IDChars

ErrBuild == "request could not be built"

ErrServer == "server error"

ErrNotFound == "Resource not found"

\* client.newRequest: the request, or the error of building it. The call is
\* logged with what it was given and what it answered.
NewRequest(method, path, payload, body, fault) ==
  LET err == IF fault = "build" THEN ErrBuild ELSE NoErr
  IN  [req  |-> [method |-> method, path |-> path, payload |-> payload, body |-> body],
       err  |-> err,
       log  |-> [fn |-> "newRequest", method |-> method, path |-> path,
                 payload |-> payload, body |-> body, err |-> err]]

-----------------------------------------------------------------------------
(* The remote API behind the transport *)

Digits == <<"1", "2", "3", "4", "5", "6", "7", "8", "9">>

\* The identifier the server gives its i-th variable.
ServerID(i) == <<"v", "-", Digits[i]>>

OrgName == "org1"

WsName == "ws1"

\* The representation the server returns: Value is left out of a sensitive
\* variable.
Redact(v) == IF v.Sensitive THEN [v EXCEPT !.Value = ""] ELSE v

RECURSIVE SeqOfIDs(_, _)
\* The variables stored under the identifiers ServerID(i..n), in that order.
SeqOfIDs(store, i) ==
  IF i > Len(Digits) THEN <<>>
  ELSE IF ServerID(i) \in DOMAIN store
       THEN <<Redact(store[ServerID(i)])>> \o SeqOfIDs(store, i + 1)
       ELSE SeqOfIDs(store, i + 1)

Min(a, b) == IF a < b THEN a ELSE b

\* The page of `items` a query asks for; an unset number is page 1, an unset
\* size the server's default, which holds every variable of the model.
Page(items, number, size) ==
  LET n == IF number = 0 THEN 1 ELSE number
      s == IF size = 0 THEN Len(items) ELSE size
  IN  SubSeq(items, (n - 1) * s + 1, Min(n * s, Len(items)))

\* GET vars: the variables of the workspace the two filters name.
ApiList(srv, query) ==
  LET all == IF query.organization = Ptr(OrgName) /\ query.workspace = Ptr(WsName)
             THEN SeqOfIDs(srv.vars, 1) ELSE <<>>
  IN  [result |-> Page(all, query.number, query.size), err |-> NoErr, server |-> srv]

\* POST vars: a new variable under a fresh identifier; the identifier a client
\* sends is ignored, hcl and sensitive default to false.
ApiCreate(srv, body) ==
  LET a == body.attrs
      complete == /\ {"Key", "Value", "Category"} \subseteq DOMAIN a
                  /\ a["Key"] # Nil /\ a["Value"] # Nil /\ a["Category"] # Nil
                  /\ body.rel = Ptr(WsName)
      flag(f) == IF f \in DOMAIN a /\ a[f] # Nil THEN Deref(a[f]) ELSE FALSE
      id == ServerID(srv.next)
      v == [ID |-> id, Key |-> Deref(a["Key"]), Value |-> Deref(a["Value"]),
            Category |-> Deref(a["Category"]), HCL |-> flag("HCL"),
            Sensitive |-> flag("Sensitive"), Workspace |-> body.rel]
  IN  IF ~complete
      THEN [result |-> Nil, err |-> ErrServer, server |-> srv]
      ELSE [result |-> Ptr(Redact(v)), err |-> NoErr,
            server |-> [next |-> srv.next + 1,
                        vars |-> [i \in DOMAIN srv.vars \cup {id} |->
                                    IF i = id THEN v ELSE srv.vars[i]]]]

\* PATCH vars/{id}: the attributes sent replace the stored ones; a variable
\* that is sensitive stays sensitive.
ApiUpdate(srv, id, body) ==
  IF id \notin DOMAIN srv.vars
  THEN [result |-> Nil, err |-> ErrNotFound, server |-> srv]
  ELSE LET a == body.attrs
           old == srv.vars[id]
           new(f) == IF f \in DOMAIN a /\ a[f] # Nil THEN Deref(a[f]) ELSE old[f]
           v == [ID |-> id, Key |-> new("Key"), Value |-> new("Value"),
                 Category |-> new("Category"), HCL |-> new("HCL"),
                 Sensitive |-> old.Sensitive \/ new("Sensitive"),
                 Workspace |-> old.Workspace]
       IN  [result |-> Ptr(Redact(v)), err |-> NoErr,
            server |-> [srv EXCEPT !.vars[id] = v]]

\* DELETE vars/{id}
ApiDelete(srv, id) ==
  IF id \notin DOMAIN srv.vars
  THEN [result |-> Nil, err |-> ErrNotFound, server |-> srv]
  ELSE [result |-> Nil, err |-> NoErr,
        server |-> [srv EXCEPT !.vars = [i \in DOMAIN srv.vars \ {id} |-> srv.vars[i]]]]

RemoteAPI(srv, req) ==
  CASE req.method = "GET"    -> ApiList(srv, req.body)
    [] req.method = "POST"   -> ApiCreate(srv, req.body)
    [] req.method = "PATCH"  -> IF Len(req.path) = 2
                                THEN ApiUpdate(srv, req.path[2], req.body)
                                ELSE [result |-> Nil, err |-> ErrNotFound, server |-> srv]
    [] req.method = "DELETE" -> IF Len(req.path) = 2
                                THEN ApiDelete(srv, req.path[2])
                                ELSE [result |-> Nil, err |-> ErrNotFound, server |-> srv]

\* client.do: executes the request and decodes the answer, or reports the
\* error; a request that fails on the way leaves the server as it was.
ClientDo(srv, req, fault) ==
  LET r == IF fault = "exec"
           THEN [result |-> Nil, err |-> ErrServer, server |-> srv]
           ELSE RemoteAPI(srv, req)
  IN  [result |-> r.result, err |-> r.err, server |-> r.server,
       log |-> [fn |-> "do", method |-> req.method, path |-> req.path,
                payload |-> req.payload, body |-> req.body, err |-> r.err]]

-----------------------------------------------------------------------------
(* variable.go: the operations *)

\* What a call leaves behind: its two return values, the transport calls it
\* made, and the server after it.
Outcome(result, err, log, srv) ==
  [result |-> result, err |-> err, trace |-> log, server |-> srv]

ErrInvalidID == "Invalid value for variable ID"

\* A variant that does not check Workspace.
VariableListOptionsValid_NoWorkspace(o) ==
  IF ~validString(o.Organization) THEN "Organization is required" ELSE NoErr

\* A variant that checks Workspace before Organization.
VariableListOptionsValid_WorkspaceFirst(o) ==
  IF ~validString(o.Workspace) THEN "Workspace is required"
  ELSE IF ~validString(o.Organization) THEN "Organization is required"
  ELSE NoErr

VariableListOptionsValid(o) ==
  IF ~validString(o.Organization) THEN "Organization is required"
  ELSE IF ~validString(o.Workspace) THEN "Workspace is required"
  ELSE NoErr

\* The query of a List call: the url tags of VariableListOptions and of the
\* ListOptions it embeds.
ListQuery(o) ==
  [organization |-> o.Organization, workspace |-> o.Workspace,
   number |-> o.PageNumber, size |-> o.PageSize]

RECURSIVE ListCollect(_, _, _)
\* The loop of List: appends result[i..] to vs.
ListCollect(vs, result, i) ==
  IF i > Len(result) THEN vs
  ELSE ListCollect(Append_(vs, result[i]), result, i + 1)

\* A variant that reports an empty answer as an error.
ListReturn_EmptyIsError(result) ==
  IF Len(result) = 0 THEN [result |-> NilSlice, err |-> ErrNotFound]
  ELSE [result |-> ListCollect(NilSlice, result, 1), err |-> NoErr]

\* The end of List: the decoded records, collected into a slice that starts nil.
ListReturn(result) ==
  [result |-> ListCollect(NilSlice, result, 1), err |-> NoErr]

List(srv, options, fault) ==
  LET verr == VariableListOptionsValid(options)
      n == NewRequest("GET", <<"vars">>, options, ListQuery(options), fault)
      d == ClientDo(srv, n.req, fault)
      r == ListReturn(d.result)
  IN  IF verr # NoErr THEN Outcome(NilSlice, verr, <<>>, srv)
      ELSE IF n.err # NoErr THEN Outcome(NilSlice, n.err, <<n.log>>, srv)
      ELSE IF d.err # NoErr THEN Outcome(NilSlice, d.err, <<n.log, d.log>>, d.server)
      ELSE Outcome(r.result, r.err, <<n.log, d.log>>, d.server)

\* A variant that checks Workspace before Category.
VariableCreateOptionsValid_CategoryLast(o) ==
  IF ~validString(o.Key) THEN "Key is required"
  ELSE IF ~validString(o.Value) THEN "Value is required"
  ELSE IF o.Workspace = Nil THEN "Workspace is required"
  ELSE IF o.Category = Nil THEN "Category is required"
  ELSE NoErr

VariableCreateOptionsValid(o) ==
  IF ~validString(o.Key) THEN "Key is required"
  ELSE IF ~validString(o.Value) THEN "Value is required"
  ELSE IF o.Category = Nil THEN "Category is required"
  ELSE IF o.Workspace = Nil THEN "Workspace is required"
  ELSE NoErr

\* A variant that leaves the caller's ID in the options.
CreateClearID_Keep(options) == options

\* options.ID = ""
CreateClearID(options) == [options EXCEPT !.ID = <<>>]

Create(srv, options, fault) ==
  LET verr == VariableCreateOptionsValid(options)
      payload == CreateClearID(options)
      n == NewRequest("POST", <<"vars">>, payload,
                      Marshal(payload, VariableCreateOptionsOmitEmpty, payload.Workspace),
                      fault)
      d == ClientDo(srv, n.req, fault)
  IN  IF verr # NoErr THEN Outcome(Nil, verr, <<>>, srv)
      ELSE IF n.err # NoErr THEN Outcome(Nil, n.err, <<n.log>>, srv)
      ELSE IF d.err # NoErr THEN Outcome(Nil, d.err, <<n.log, d.log>>, d.server)
      ELSE Outcome(d.result, NoErr, <<n.log, d.log>>, d.server)

\* A variant that leaves the caller's ID in the options.
UpdateForceID_Keep(variableID, options) == options

\* options.ID = variableID
UpdateForceID(variableID, options) == [options EXCEPT !.ID = variableID]

\* A variant that drops the identifier from the path.
VarPath_Collection(variableID) == <<"vars">>

\* "vars/" + variableID
VarPath(variableID) == <<"vars", variableID>>

\* A variant that fills the Value of the options into the returned record.
UpdateReturn_LocalValue(options, v) ==
  IF options.Value # Nil THEN Ptr([Deref(v) EXCEPT !.Value = Deref(options.Value)]) ELSE v

\* The end of Update: the record the transport decoded, as it is.
UpdateReturn(options, v) == v

Update(srv, variableID, options, fault) ==
  LET payload == UpdateForceID(variableID, options)
      n == NewRequest("PATCH", VarPath(variableID), payload,
                      Marshal(payload, VariableUpdateOptionsOmitEmpty, Nil), fault)
      d == ClientDo(srv, n.req, fault)
  IN  IF ~validStringID(Ptr(variableID)) THEN Outcome(Nil, ErrInvalidID, <<>>, srv)
      ELSE IF n.err # NoErr THEN Outcome(Nil, n.err, <<n.log>>, srv)
      ELSE IF d.err # NoErr THEN Outcome(Nil, d.err, <<n.log, d.log>>, d.server)
      ELSE Outcome(UpdateReturn(options, d.result), NoErr, <<n.log, d.log>>, d.server)

\* A variant that drops the error of client.do.
DeleteReturn_Swallow(err) == NoErr

\* The end of Delete: the error of client.do, as it is.
DeleteReturn(err) == err

Delete(srv, variableID, fault) ==
  LET n == NewRequest("DELETE", VarPath(variableID), Nil, Nil, fault)
      d == ClientDo(srv, n.req, fault)
  IN  IF ~validStringID(Ptr(variableID)) THEN Outcome(Nil, ErrInvalidID, <<>>, srv)
      ELSE IF n.err # NoErr THEN Outcome(Nil, n.err, <<n.log>>, srv)
      ELSE Outcome(Nil, DeleteReturn(d.err), <<n.log, d.log>>, d.server)

-----------------------------------------------------------------------------
(* The inputs of the calls *)

EmptyID == <<>>

BadIdentifier == <<"!", " ", "/">>

NonExisting == <<"n", "o", "n", "e">>

\* What a caller may leave in the ID field of its options.
CallerIDs == {EmptyID, <<"x">>}

Faults == {"none", "build", "exec"}

IDInputs == {EmptyID, BadIdentifier, NonExisting} \cup {ServerID(i) : i \in 1..MaxVars}

ListInputs ==
  [Organization : {Nil, Ptr(""), Ptr(OrgName), Ptr("org2")},
   Workspace    : {Nil, Ptr(""), Ptr(WsName), Ptr("ws2")},
   PageNumber   : 0..MaxPage,
   PageSize     : {0, 1}]

\* Create options: every combination of missing required fields with either
\* ID, and every choice of values with the ID left empty.
CreateInputs ==
  [ID : CallerIDs, Key : {Nil, Ptr(""), Ptr("k1")}, Value : {Nil, Ptr(""), Ptr("v1")},
   Category : {Nil, Ptr(CategoryTerraform)}, HCL : {Nil},
   Sensitive : {Nil}, Workspace : {Nil, Ptr(WsName)}]
  \cup
  [ID : {EmptyID}, Key : {Ptr("k1"), Ptr("k2")}, Value : {Ptr("v1"), Ptr("v2")},
   Category : {Ptr(CategoryEnv), Ptr(CategoryTerraform)},
   HCL : {Nil, Ptr(TRUE), Ptr(FALSE)}, Sensitive : {Nil, Ptr(TRUE), Ptr(FALSE)},
   Workspace : {Ptr(WsName)}]

\* Update options: every choice of the five attributes with the ID left empty,
\* and either ID with no attribute, Key alone or Value and Sensitive.
UpdateInputs ==
  [ID : {EmptyID}, Key : {Nil, Ptr("k1"), Ptr("k2")}, Value : {Nil, Ptr("v1"), Ptr("v2")},
   Category : {Nil, Ptr(CategoryEnv), Ptr(CategoryTerraform)},
   HCL : {Nil, Ptr(TRUE), Ptr(FALSE)}, Sensitive : {Nil, Ptr(TRUE), Ptr(FALSE)}]
  \cup
  [ID : CallerIDs, Key : {Nil, Ptr("k2")}, Value : {Nil, Ptr("v2")},
   Category : {Nil}, HCL : {Nil}, Sensitive : {Nil, Ptr(TRUE)}]

\* A transport fault is tried with the options that leave HCL and Sensitive
\* unset.
FaultsFor(options) ==
  IF options.HCL = Nil /\ options.Sensitive = Nil THEN Faults ELSE {"none"}

-----------------------------------------------------------------------------
(* The state machine: the client makes one synchronous call at a time; a   *)
(* call is one step, and the caller then takes what it returned.           *)

Idle == [op |-> "none"]

Init ==
  /\ server = [next |-> 1, vars |-> <<>>]
  /\ before = server
  /\ call = Idle
  /\ ret = [result |-> Nil, err |-> NoErr]
  /\ trace = <<>>

Finish(c, out) ==
  /\ before' = server
  /\ call' = c
  /\ ret' = [result |-> out.result, err |-> out.err]
  /\ trace' = out.trace
  /\ server' = out.server

ListAction ==
  /\ call = Idle
  /\ \E options \in ListInputs, fault \in Faults :
    Finish([op |-> "List", options |-> options, fault |-> fault],
           List(server, options, fault))

CreateAction ==
  /\ call = Idle
  /\ \E options \in CreateInputs :
    \E fault \in FaultsFor(options) :
      LET out == Create(server, options, fault)
      IN  /\ out.server.next <= MaxVars + 1
          /\ Finish([op |-> "Create", options |-> options, fault |-> fault], out)

UpdateAction ==
  /\ call = Idle
  /\ \E variableID \in IDInputs, options \in UpdateInputs :
    \E fault \in FaultsFor(options) :
      Finish([op |-> "Update", variableID |-> variableID, options |-> options,
              fault |-> fault],
             Update(server, variableID, options, fault))

DeleteAction ==
  /\ call = Idle
  /\ \E variableID \in IDInputs, fault \in Faults :
    Finish([op |-> "Delete", variableID |-> variableID, fault |-> fault],
           Delete(server, variableID, fault))

\* The caller has taken the result of its call and may make the next one.
Returned ==
  /\ call # Idle
  /\ call' = Idle
  /\ ret' = [result |-> Nil, err |-> NoErr]
  /\ trace' = <<>>
  /\ before' = server
  /\ UNCHANGED server

Next == ListAction \/ CreateAction \/ UpdateAction \/ DeleteAction \/ Returned

Spec == Init /\ [][Next]_vars

-----------------------------------------------------------------------------
(* Properties *)

\* A required string option that is nil or points to the empty string.
Missing(p) == p = Nil \/ p = Ptr("")

\* The options of a Create call with a required field missing.
CreateInvalid(o) ==
  Missing(o.Key) \/ Missing(o.Value) \/ o.Category = Nil \/ o.Workspace = Nil

\* The last call failed local validation.
InvalidInput ==
  \/ /\ call.op = "List"
     /\ Missing(call.options.Organization) \/ Missing(call.options.Workspace)
  \/ /\ call.op = "Create"
     /\ CreateInvalid(call.options)
  \/ /\ call.op \in {"Update", "Delete"}
     /\ ~validStringID(Ptr(call.variableID))

\* The last call passed local validation.
ValidInput == call # Idle /\ ~InvalidInput

ValidationErrors ==
  [List   |-> {"Organization is required", "Workspace is required"},
   Create |-> {"Key is required", "Value is required", "Category is required",
               "Workspace is required"},
   Update |-> {ErrInvalidID},
   Delete |-> {ErrInvalidID}]

\* The zero value of the result of the last call.
ResultIsNil == IF call.op = "List" THEN ret.result = NilSlice ELSE ret.result = Nil

\* C1: a call that fails local validation returns the validation error, has
\* not invoked the transport (no request built, none executed) and leaves the
\* server as it was.
C1_ValidationShortCircuits ==
  InvalidInput =>
    /\ ret.err \in ValidationErrors[call.op]
    /\ ResultIsNil
    /\ trace = <<>>
    /\ server = before

\* An Update with a malformed identifier against a server that holds a variable.
C1_Witness ==
  /\ call.op = "Update"
  /\ call.variableID = BadIdentifier
  /\ call.options.Key # Nil
  /\ before.vars # <<>>
  /\ ret.err = ErrInvalidID

\* C2: every request of a Create call that passes validation is POST "vars"
\* with an empty ID in the payload and in its encoding, whatever ID the caller
\* put in the options.
C2_CreateClearsID ==
  (call.op = "Create" /\ ~CreateInvalid(call.options)) =>
    /\ Len(trace) >= 1
    /\ \A i \in 1..Len(trace) :
         /\ trace[i].method = "POST"
         /\ trace[i].path = <<"vars">>
         /\ trace[i].payload.ID = EmptyID
         /\ trace[i].body.id = EmptyID

\* A Create that succeeded although the caller had set an ID.
C2_Witness ==
  /\ call.op = "Create"
  /\ call.options.ID = <<"x">>
  /\ Len(trace) = 2
  /\ ret.err = NoErr
  /\ Deref(ret.result).ID # <<"x">>

\* C3: every request of an Update call with a valid variableID has the path
\* "vars/" + variableID and a payload whose ID is variableID; the ID the caller
\* put in the options is not sent.
C3_UpdateForcesID ==
  (call.op = "Update" /\ validStringID(Ptr(call.variableID))) =>
    /\ Len(trace) >= 1
    /\ \A i \in 1..Len(trace) :
         /\ trace[i].path = <<"vars", call.variableID>>
         /\ trace[i].payload.ID = call.variableID
         /\ trace[i].body.id = trace[i].path[2]
         /\ call.options.ID # call.variableID => trace[i].payload.ID # call.options.ID

\* An Update of an existing variable whose options carried another ID.
C3_Witness ==
  /\ call.op = "Update"
  /\ call.options.ID = <<"x">>
  /\ call.variableID \in DOMAIN before.vars
  /\ Len(trace) = 2
  /\ ret.err = NoErr

\* C4: List checks Organization first and Workspace second and returns one
\* error with a nil slice: "Organization is required" when Organization is nil
\* or empty, whatever Workspace is; "Workspace is required" when only Workspace
\* is nil or empty.
C4_ListValidationOrder ==
  call.op = "List" =>
    /\ Missing(call.options.Organization) =>
         ret.err = "Organization is required" /\ ret.result = NilSlice
    /\ (~Missing(call.options.Organization) /\ Missing(call.options.Workspace)) =>
         ret.err = "Workspace is required" /\ ret.result = NilSlice

\* A List with both filters missing.
C4_Witness ==
  /\ call.op = "List"
  /\ call.options.Organization = Nil
  /\ call.options.Workspace = Ptr("")
  /\ ret.err = "Organization is required"

\* C5: Create returns the error of the first missing field in the order Key,
\* Value, Category, Workspace; Key and Value are missing when nil or empty,
\* Category and Workspace when nil.
C5_CreateValidationOrder ==
  call.op = "Create" =>
    LET o == call.options
    IN  /\ Missing(o.Key) => ret.err = "Key is required"
        /\ (~Missing(o.Key) /\ Missing(o.Value)) => ret.err = "Value is required"
        /\ (~Missing(o.Key) /\ ~Missing(o.Value) /\ o.Category = Nil) =>
             ret.err = "Category is required"
        /\ (~Missing(o.Key) /\ ~Missing(o.Value) /\ o.Category # Nil
              /\ o.Workspace = Nil) =>
             ret.err = "Workspace is required"

\* A Create with Category and Workspace both missing.
C5_Witness ==
  /\ call.op = "Create"
  /\ ~Missing(call.options.Key) /\ ~Missing(call.options.Value)
  /\ call.options.Category = Nil
  /\ call.options.Workspace = Nil
  /\ ret.err = "Category is required"

\* C6: Delete of a well-formed variableID the server does not hold returns the
\* transport's "Resource not found", which is not the local error of a
\* malformed ID; the call makes the one DELETE request and nothing else.
C6_DeleteNotFound ==
  (/\ call.op = "Delete"
   /\ validStringID(Ptr(call.variableID))
   /\ call.variableID \notin DOMAIN before.vars
   /\ call.fault = "none") =>
    /\ ret.err = ErrNotFound
    /\ ret.err # ErrInvalidID
    /\ Len(trace) = 2
    /\ trace[1].fn = "newRequest" /\ trace[1].method = "DELETE"
    /\ trace[2].fn = "do" /\ trace[2].method = "DELETE"
    /\ trace[2].path = <<"vars", call.variableID>>
    /\ ret.err = trace[2].err
    /\ server = before

\* A Delete of a variable that the server had created and an earlier Delete
\* had removed.
C6_Witness ==
  /\ call.op = "Delete"
  /\ call.fault = "none"
  /\ call.variableID = ServerID(1)
  /\ before.next > 1
  /\ ServerID(1) \notin DOMAIN before.vars
  /\ ret.err = ErrNotFound

\* The attributes the caller set in the options of the last call.
SetFields == {f \in AttrFields : call.options[f] # Nil}

\* An Update of a variable the server holds, the transport working.
UpdateOfExisting ==
  /\ call.op = "Update"
  /\ call.variableID \in DOMAIN before.vars
  /\ call.fault = "none"

\* The record the server returned for the variable before the last call.
PriorRecord == Redact(before.vars[call.variableID])

\* What C7 and its amendment share: the PATCH payload holds the fields the
\* caller set and no other, an Update of Key alone changes Key, and an Update
\* with empty options succeeds and returns the record as it was.
UpdateIsPartial ==
  /\ DOMAIN trace[2].body.attrs = SetFields
  /\ \A f \in SetFields : trace[2].body.attrs[f] = call.options[f]
  /\ SetFields = {"Key"} =>
       ret.err = NoErr /\ Deref(ret.result).Key = Deref(call.options.Key)
  /\ SetFields = {} => ret.err = NoErr /\ Deref(ret.result) = PriorRecord

\* C7 as claimed: moreover every field the caller did not set has its prior
\* value in the returned record.
C7_Original ==
  UpdateOfExisting =>
    /\ UpdateIsPartial
    /\ ret.err = NoErr =>
         \A f \in AttrFields \ SetFields : Deref(ret.result)[f] = PriorRecord[f]

\* C7 as amended: moreover every field the caller did not set has its prior
\* value in the returned record, except that Value is empty in a returned
\* record that is Sensitive.
C7_PartialUpdate ==
  UpdateOfExisting =>
    /\ UpdateIsPartial
    /\ ret.err = NoErr =>
         \A f \in AttrFields \ SetFields :
           IF f = "Value" /\ Deref(ret.result).Sensitive
           THEN Deref(ret.result).Value = ""
           ELSE Deref(ret.result)[f] = PriorRecord[f]

\* An Update of Key alone that changed Key and left a set HCL flag and the
\* value of a variable that is not sensitive.
C7_Witness ==
  /\ UpdateOfExisting
  /\ SetFields = {"Key"}
  /\ ret.err = NoErr
  /\ Deref(ret.result).Key # PriorRecord.Key
  /\ PriorRecord.HCL /\ Deref(ret.result).HCL
  /\ Deref(ret.result).Value = "v2" /\ PriorRecord.Value = "v2"

\* The server has no variable for the filters and the page of the last List.
ZeroMatches ==
  LET o == call.options
      count == Cardinality(DOMAIN before.vars)
  IN  \/ count = 0
      \/ o.Organization # Ptr(OrgName)
      \/ o.Workspace # Ptr(WsName)
      \/ o.PageNumber > 1 /\ (o.PageSize = 0 \/ (o.PageNumber - 1) * o.PageSize >= count)

\* C8: a List with valid filters for which the server has no variable returns
\* an empty sequence and no error, and a List that failed returns an error.
C8_EmptyListIsSuccess ==
  call.op = "List" =>
    /\ (ValidInput /\ call.fault = "none" /\ ZeroMatches) =>
         ret.err = NoErr /\ Len(ret.result.elems) = 0
    /\ (InvalidInput \/ call.fault # "none") =>
         ret.err # NoErr

\* A List of a page out of range against a server that holds a variable.
C8_Witness ==
  /\ call.op = "List"
  /\ call.fault = "none"
  /\ before.vars # <<>>
  /\ call.options.Organization = Ptr(OrgName)
  /\ call.options.Workspace = Ptr(WsName)
  /\ call.options.PageNumber = MaxPage
  /\ ret.err = NoErr
  /\ Len(ret.result.elems) = 0

\* C9: an Update that sets Sensitive to true, or that is made on a variable
\* whose Sensitive flag is already true, returns a record whose Value is empty.
C9_SensitiveRedaction ==
  (/\ call.op = "Update"
   /\ ret.err = NoErr
   /\ \/ call.options.Sensitive = Ptr(TRUE)
      \/ before.vars[call.variableID].Sensitive) =>
    Deref(ret.result).Value = ""

\* An Update that set Sensitive to true and a new Value on a variable that was
\* not sensitive.
C9_Witness ==
  /\ UpdateOfExisting
  /\ call.options.Sensitive = Ptr(TRUE)
  /\ call.options.Value = Ptr("v2")
  /\ ~before.vars[call.variableID].Sensitive
  /\ before.vars[call.variableID].Value = "v1"
  /\ ret.err = NoErr
  /\ Deref(ret.result).Sensitive

ExpectedMethod == [List |-> "GET", Create |-> "POST", Update |-> "PATCH", Delete |-> "DELETE"]

ExpectedPath ==
  IF call.op \in {"List", "Create"} THEN <<"vars">> ELSE <<"vars", call.variableID>>

\* C10: a call that passes validation builds one request with the method and
\* path of its operation and executes it at most once; it returns the error of
\* the last transport call unchanged, with a nil result when that is an error.
C10_OneRequestNoRetry ==
  ValidInput =>
    /\ Len(trace) \in {1, 2}
    /\ trace[1].fn = "newRequest"
    /\ trace[1].method = ExpectedMethod[call.op]
    /\ trace[1].path = ExpectedPath
    /\ trace[1].err # NoErr => Len(trace) = 1
    /\ trace[1].err = NoErr =>
         /\ Len(trace) = 2
         /\ trace[2].fn = "do"
         /\ trace[2].method = trace[1].method
         /\ trace[2].path = trace[1].path
         /\ trace[2].payload = trace[1].payload
    /\ ret.err = trace[Len(trace)].err
    /\ ret.err # NoErr => ResultIsNil

\* An Update of an existing variable whose request failed in execution.
C10_Witness ==
  /\ call.op = "Update"
  /\ call.variableID \in DOMAIN before.vars
  /\ call.fault = "exec"
  /\ Len(trace) = 2
  /\ ret.err = ErrServer
  /\ ret.result = Nil
  /\ server = before

====
